---- MODULE Spec2Model ----
(***************************************************************************)
(* Model of the command-pattern chat assistant: the intent router of       *)
(* app.py (process_user_input, process_memory_query,                       *)
(* process_calendar_query), the session handlers of main(), the memory     *)
(* gateway of mem0_manager.py and the calendar gateway wrappers of         *)
(* mcp_calendar_client.py.                                                 *)
(*                                                                         *)
(* Text is modelled by TLA+ strings; the Python string methods the router  *)
(* uses (lower, strip, startswith, in, replace, split) are operators that  *)
(* compute what the Python methods compute.  The only whitespace character *)
(* in the modelled inputs is the space.                                    *)
(***************************************************************************)
EXTENDS Integers, Sequences, FiniteSets, TLC

VARIABLES
    user_input,             \* content of the "Enter command..." text box
    calendar_authenticated, \* st.session_state.calendar_authenticated
    client_authenticated,   \* calendar_client.authenticated (gateway side)
    memory_available,       \* st.session_state.memory_available
    user_id,                \* st.session_state.user_id
    chat_history,           \* st.session_state.chat_history
    store,                  \* records held by the memory provider
    handled,                \* text given to the last command handler
    route,                  \* branch process_user_input took for it
    response,               \* response string of the last command handler
    calls,                  \* gateway calls made by the last command handler
    gateway_failed,         \* a gateway call of the last handler failed
    raised,                 \* an exception escaped the last handler
    now,                    \* datetime.now() of a calendar tool call, in minutes
    duration_minutes,       \* duration (window length) given to the tool
    oracle,                 \* free/busy data and failure of the provider queried
    tool,                   \* calendar tool called directly, NA when none
    search,                 \* outcome of GoogleCalendarClient.get_next_free_slot
    free_busy,              \* the provider's answer to the window checked
    tool_result             \* dict returned by the calendar tool

tool_vars == <<now, duration_minutes, oracle, tool, search, free_busy, tool_result>>

vars == <<user_input, calendar_authenticated, client_authenticated,
          memory_available, user_id, chat_history, store,
          handled, route, response, calls, gateway_failed, raised, tool_vars>>

----------------------------------------------------------------------------
(* Bounds of the model *)

MaxChat == 2
MaxStore == 2
MaxTranscript == 4
MaxLongChat == 22
MaxFaultAt == 1
MaxIterations == 200

----------------------------------------------------------------------------
(* Python string methods *)

\* str.lower() on one character
ToLower ==
    [A |-> "a", B |-> "b", C |-> "c", D |-> "d", E |-> "e", F |-> "f", G |-> "g",
     H |-> "h", I |-> "i", J |-> "j", K |-> "k", L |-> "l", M |-> "m", N |-> "n",
     O |-> "o", P |-> "p", Q |-> "q", R |-> "r", S |-> "s", T |-> "t", U |-> "u",
     V |-> "v", W |-> "w", X |-> "x", Y |-> "y", Z |-> "z"]

CharAt(s, i) == SubSeq(s, i, i)

LowerChar(c) == IF c \in DOMAIN ToLower THEN ToLower[c] ELSE c

RECURSIVE Lower(_)
Lower(s) == IF s = "" THEN "" ELSE LowerChar(CharAt(s, 1)) \o Lower(Tail(s))

RECURSIVE LStrip(_)
LStrip(s) == IF s # "" /\ CharAt(s, 1) = " " THEN LStrip(Tail(s)) ELSE s

RECURSIVE RStrip(_)
RStrip(s) ==
    IF s # "" /\ CharAt(s, Len(s)) = " "
    THEN RStrip(SubSeq(s, 1, Len(s) - 1))
    ELSE s

Strip(s) == RStrip(LStrip(s))

StartsWith(s, p) == Len(s) >= Len(p) /\ SubSeq(s, 1, Len(p)) = p

Contains(s, p) ==
    \E i \in 1..(Len(s) - Len(p) + 1) : SubSeq(s, i, i + Len(p) - 1) = p

\* s.replace(old, ''): every non-overlapping occurrence, left to right
RECURSIVE Remove(_, _)
Remove(s, old) ==
    IF s = "" THEN ""
    ELSE IF StartsWith(s, old)
         THEN Remove(SubSeq(s, Len(old) + 1, Len(s)), old)
         ELSE CharAt(s, 1) \o Remove(Tail(s), old)

\* index of the first space of s, 0 when there is none
RECURSIVE FindSpace(_, _)
FindSpace(s, i) ==
    IF i > Len(s) THEN 0
    ELSE IF CharAt(s, i) = " " THEN i ELSE FindSpace(s, i + 1)

\* s.split(' ', maxsplit): consecutive spaces are not merged
RECURSIVE Split(_, _)
Split(s, maxsplit) ==
    LET k == FindSpace(s, 1) IN
    IF maxsplit = 0 \/ k = 0 THEN <<s>>
    ELSE <<SubSeq(s, 1, k - 1)>> \o Split(SubSeq(s, k + 1, Len(s)), maxsplit - 1)

\* any(word in s for word in words)
ContainsAny(s, words) == \E i \in 1..Len(words) : Contains(s, words[i])

----------------------------------------------------------------------------
(* Responses and gateway call records *)

NA == "<n/a>"

\* a response string: fixed text msg with the interpolated values arg, arg2
\* and the memory records listed in it
Resp(msg, arg, arg2, items) ==
    [msg |-> msg, arg |-> arg, arg2 |-> arg2, items |-> items]
R0(msg) == Resp(msg, "", "", <<>>)
R1(msg, arg) == Resp(msg, arg, "", <<>>)

NoResponse == R0(NA)

\* one call of a gateway function
Call(op, uid, id, text, category, limit, threshold) ==
    [op |-> op, user_id |-> uid, id |-> id, text |-> text,
     category |-> category, limit |-> limit, threshold |-> threshold]
CalCall(op, text, limit) == Call(op, NA, NA, text, NA, limit, 0)

MSG_NOT_AUTH == "Calendar not authenticated. Please authenticate first using the button in the sidebar."
MSG_HELP == "Available Commands:"
MSG_GREETING == "Hello! I'm your personal assistant. Type 'help' to see available commands."
MSG_UNRECOGNIZED == "Command not recognized. Type 'help' to see available commands for calendar and memory management."
MSG_CALENDAR_ERROR == "Calendar Error:"
MSG_TODAY == "Today's Schedule:"
MSG_WEEK == "Weekly Schedule:"
MSG_UPCOMING == "Upcoming Events:"
MSG_SEARCH_RESULTS == "Search Results for"
MSG_SEARCH_SPECIFY == "Please specify what you want to search for in your calendar."
MSG_AVAILABILITY == "Availability:"
MSG_AVAILABLE == "Availability: You're available for the next 2 hours!"
MSG_BUSY == "Availability: You're busy in the next 2 hours."
MSG_MEM_UNAVAILABLE == "Memory system is not available."
MSG_MEM_STORED == "Memory Stored:"
MSG_MEM_ERROR == "Memory Error:"
MSG_MEM_INVALID == "Please provide a valid memory to store."
MSG_MEM_UPDATED == "Memory Updated:"
MSG_UPDATE_ERROR == "Update Error:"
MSG_UPDATE_USAGE == "Usage: update memory <id> <new content>"
MSG_MEM_DELETED == "Memory Deleted:"
MSG_DELETE_ERROR == "Delete Error:"
MSG_DELETE_USAGE == "Usage: delete memory <id>"
MSG_MEMORIES_ABOUT == "Memories about"
MSG_YOUR_MEMORIES == "Your Memories:"
MSG_NONE_ABOUT == "No memories found about ... with sufficient similarity (threshold: 0.5)."
MSG_NONE_STORED == "No memories stored yet. Use 'remember that...' to store memories."
MSG_MEM_SEARCH_RESULTS == "Memory Search Results for"
MSG_NONE_FOR == "No memories found for ... with sufficient similarity (threshold: 0.5)."
MSG_MEM_SEARCH_SPECIFY == "Please specify what you want to search for in your memories."
MSG_MEM_CLEARED == "All memories have been cleared."
MSG_PREF_STORED == "Preference Stored:"
MSG_UNKNOWN_MEMORY == "Unknown Memory Command. Available commands:"
MSG_MEM_SYSTEM_ERROR == "Memory System Error:"
MSG_VIEW_NONE == "No memories stored yet."

----------------------------------------------------------------------------
(* Memory gateway: MemoryManager over the provider's records.  A provider  *)
(* call either succeeds or raises (fail); a search gives every record it   *)
(* returns a similarity score, in tenths, or no score at all.              *)

NoScore == -1
Scores == {NoScore, 4, 5, 9}
THRESHOLD == 5

UserIds == {"student_001", "guest"}

Rec(id, uid, text, mtype) ==
    [id |-> id, user_id |-> uid, memory |-> text, memory_type |-> mtype]

Ids(st) == {st[i].id : i \in 1..Len(st)}

\* the provider's identifier of a new record
NewId(st) ==
    LET k == CHOOSE n \in 1..9 :
                 /\ ("m" \o CharAt("123456789", n)) \notin Ids(st)
                 /\ \A j \in 1..(n - 1) : ("m" \o CharAt("123456789", j)) \in Ids(st)
    IN "m" \o CharAt("123456789", k)

OwnedBy(st, uid) == LET own(r) == r.user_id = uid IN SelectSeq(st, own)

FirstN(q, n) == SubSeq(q, 1, IF Len(q) < n THEN Len(q) ELSE n)

add_memory(st, uid, memory_text, memory_type, fail) ==
    IF fail
    THEN [success |-> FALSE, store |-> st]
    ELSE [success |-> TRUE,
          store |-> Append(st, Rec(NewId(st), uid, memory_text, memory_type))]

\* is_dict: the provider's {'results': [...]} came back; on an exception the
\* method returns the bare list []
get_memories(st, uid, limit, fail) ==
    IF fail
    THEN [is_dict |-> FALSE, results |-> <<>>]
    ELSE [is_dict |-> TRUE, results |-> FirstN(OwnedBy(st, uid), limit)]

\* sc[i] is the score the provider gives to the i-th record it returns
Scored(q, sc) ==
    [i \in 1..Len(q) |->
        [id |-> q[i].id, user_id |-> q[i].user_id, memory |-> q[i].memory,
         memory_type |-> q[i].memory_type, score |-> sc[i]]]

\* search_memories keeping only the scores above the threshold
search_memories_above(st, uid, query, limit, threshold, fail, sc) ==
    IF fail
    THEN <<>>
    ELSE LET raw == Scored(FirstN(OwnedBy(st, uid), limit), sc)
             keep(m) == (IF m.score = NoScore THEN 0 ELSE m.score) > threshold
         IN SelectSeq(raw, keep)

search_memories(st, uid, query, limit, threshold, fail, sc) ==
    IF fail
    THEN <<>>
    ELSE LET raw == Scored(FirstN(OwnedBy(st, uid), limit), sc)
             keep(m) == (IF m.score = NoScore THEN 0 ELSE m.score) >= threshold
         IN SelectSeq(raw, keep)

update_memory(st, memory_id, updated_text, fail) ==
    IF fail \/ memory_id \notin Ids(st)
    THEN [success |-> FALSE, store |-> st]
    ELSE [success |-> TRUE,
          store |-> [i \in 1..Len(st) |->
                        IF st[i].id = memory_id
                        THEN Rec(st[i].id, st[i].user_id, updated_text, st[i].memory_type)
                        ELSE st[i]]]

delete_memory(st, memory_id, fail) ==
    IF fail \/ memory_id \notin Ids(st)
    THEN [success |-> FALSE, store |-> st]
    ELSE LET other(r) == r.id # memory_id
         IN [success |-> TRUE, store |-> SelectSeq(st, other)]

clear_user_memories(st, uid, fail) ==
    IF fail
    THEN [success |-> FALSE, store |-> st]
    ELSE LET other(r) == r.user_id # uid
         IN [success |-> TRUE, store |-> SelectSeq(st, other)]

----------------------------------------------------------------------------
(* Calendar gateway: the tool wrappers of mcp_calendar_client.py.  env     *)
(* gives the outcome of the provider: auth_ok for authenticate(), fetch    *)
(* for an event listing, freebusy for a free/busy query and slot for the   *)
(* slot search.                                                            *)

FetchOutcomes == {"events", "empty", "http_error", "exception"}
FreeBusyOutcomes == {"busy", "free", "http_error", "no_calendars", "exception"}
SlotOutcomes == {"slot", "none", "exception"}

Result(status, message, formatted_output, available) ==
    [status |-> status, message |-> message,
     formatted_output |-> formatted_output, available |-> available]

ErrorResult(message) == Result("error", message, NA, NA)

\* result.get(key, default) on a field of a wrapper's result
Get(value, default) == IF value = NA THEN default ELSE value

\* calendar_client.authenticated after "if not authenticated: authenticate()"
EnsureAuthenticated(cauth, env) == cauth \/ env.auth_ok

format_events_for_display(fetch) ==
    IF fetch = "events" THEN "1. **Standup** - 09:00 AM" ELSE "No events found."

get_weekly_schedule_formatted(fetch) ==
    IF fetch = "events"
    THEN "**Monday, January 01:** 09:00 AM - Standup"
    ELSE "No events scheduled for this week."

get_todays_events(cauth, env) ==
    IF ~EnsureAuthenticated(cauth, env) THEN ErrorResult("Authentication required")
    ELSE IF env.fetch = "exception" THEN ErrorResult("Failed to fetch today's events")
    ELSE Result("success", NA, format_events_for_display(env.fetch), NA)

get_weekly_events(cauth, env) ==
    IF ~EnsureAuthenticated(cauth, env) THEN ErrorResult("Authentication required")
    ELSE IF env.fetch = "exception" THEN ErrorResult("Failed to fetch weekly events")
    ELSE Result("success", NA, get_weekly_schedule_formatted(env.fetch), NA)

get_upcoming_events(cauth, env) ==
    IF ~EnsureAuthenticated(cauth, env) THEN ErrorResult("Authentication required")
    ELSE IF env.fetch = "exception" THEN ErrorResult("Failed to fetch upcoming events")
    ELSE Result("success", NA, format_events_for_display(env.fetch), NA)

search_events(cauth, env) ==
    IF ~EnsureAuthenticated(cauth, env) THEN ErrorResult("Authentication required")
    ELSE IF env.fetch = "exception" THEN ErrorResult("Search failed")
    ELSE Result("success", NA, format_events_for_display(env.fetch), NA)

\* GoogleCalendarClient.is_available on the outcome of get_free_busy_info
is_available(freebusy) ==
    IF freebusy \in {"http_error", "no_calendars"} THEN TRUE
    ELSE freebusy = "free"

check_availability(cauth, env) ==
    IF ~EnsureAuthenticated(cauth, env) THEN ErrorResult("Authentication required")
    ELSE IF env.freebusy = "exception" THEN ErrorResult("Availability check failed")
    ELSE IF is_available(env.freebusy)
         THEN Result("success", "Available", NA, "True")
         ELSE Result("success", "Busy", NA, "False")

\* str(duration_minutes) in the messages of get_next_free_slot
DurationText ==
    [d \in {30, 60, 90} |-> IF d = 30 THEN "30" ELSE IF d = 60 THEN "60" ELSE "90"]

\* the success dict of get_next_free_slot: it has a next_available_slot
SlotResult(message, next_available_slot) ==
    [status |-> "success", message |-> message, formatted_output |-> NA,
     available |-> NA, next_available_slot |-> next_available_slot]

\* env.slot is the outcome of calendar_client.get_next_free_slot
get_next_free_slot(cauth, env) ==
    IF ~EnsureAuthenticated(cauth, env) THEN ErrorResult("Authentication required")
    ELSE IF env.slot = "exception" THEN ErrorResult("Failed to find free slot")
    ELSE IF env.slot = "slot"
         THEN SlotResult("Next available " \o DurationText[env.duration]
                             \o "-minute slot",
                         "isoformat")
         ELSE SlotResult("No available " \o DurationText[env.duration]
                             \o "-minute slot found in the next 7 days",
                         "None")

----------------------------------------------------------------------------
(* GoogleCalendarClient.is_available and get_next_free_slot of             *)
(* calendar_tools.py.  An instant is a number of minutes counted from      *)
(* 00:00 of the day of now; seconds are left out, the search drops them    *)
(* from its candidates and they decide no comparison with now + 7 days.    *)

NoTime == -1

Hour(t) == (t % 1440) \div 60
Minute(t) == t % 60

\* datetime.replace(hour=h, minute=m) raises ValueError unless h is in 0..23
Replace(t, h, m) ==
    IF h \in 0..23 /\ m \in 0..59
    THEN [raised |-> FALSE, at |-> (t \div 1440) * 1440 + h * 60 + m]
    ELSE [raised |-> TRUE, at |-> NoTime]

\* the first value of current_check
first_check(t) ==
    IF Minute(t) < 30
    THEN Replace(t, Hour(t), 30)
    ELSE Replace(t, Hour(t) + 1, 0)

\* the provider holds the busy intervals o.busy of the primary calendar and
\* fails as o.fault on its query number o.fault_at (counted from 0)
Faults == FreeBusyOutcomes \ {"busy", "free"}

Overlaps(o, start_time, end_time) ==
    \E i \in 1..Len(o.busy) : o.busy[i][1] < end_time /\ o.busy[i][2] > start_time

\* outcome of get_free_busy_info for query number k
get_free_busy_info(o, k, start_time, end_time) ==
    IF o.fault # "none" /\ o.fault_at = k THEN o.fault
    ELSE IF Overlaps(o, start_time, end_time) THEN "busy" ELSE "free"

\* diverged: the while loop made MaxIterations iterations without ending
SearchResult(rs, slot, tested, start, diverged) ==
    [raised |-> rs, slot |-> slot, tested |-> tested, start |-> start,
     diverged |-> diverged]

NoSearch == SearchResult(FALSE, NoTime, <<>>, NoTime, FALSE)

\* CheckAt with a loop that adds timedelta(minutes=30)
CheckAt_half_hour(start, k) == start + 30 * k

\* current_check in iteration k of the while loop, counted from 0: the
\* loop adds timedelta(hours=1) at the end of every iteration
CheckAt(start, k) == start + 60 * k

\* the provider's answer to the test of iteration k
Answer(start, duration, o, k) ==
    get_free_busy_info(o, k, CheckAt(start, k), CheckAt(start, k) + duration)

\* iteration k is the last: the loop condition fails, or the test of
\* current_check raises, or it returns current_check as available
Ends(start, check_end, duration, o, k) ==
    \/ ~(CheckAt(start, k) < check_end)
    \/ Answer(start, duration, o, k) = "exception"
    \/ is_available(Answer(start, duration, o, k))

\* the while loop; tested lists the candidates given to is_available
slot_loop(start, check_end, duration, o) ==
    IF \A k \in 0..(MaxIterations - 1) : ~Ends(start, check_end, duration, o, k)
    THEN SearchResult(FALSE, NoTime,
                      [i \in 1..MaxIterations |-> CheckAt(start, i - 1)], start, TRUE)
    ELSE LET last == CHOOSE k \in 0..(MaxIterations - 1) :
                         /\ Ends(start, check_end, duration, o, k)
                         /\ \A j \in 0..(k - 1) : ~Ends(start, check_end, duration, o, j)
             before == [i \in 1..last |-> CheckAt(start, i - 1)]
             check == CheckAt(start, last)
         IN IF ~(check < check_end)
            THEN SearchResult(FALSE, NoTime, before, start, FALSE)
            ELSE IF Answer(start, duration, o, last) = "exception"
            THEN SearchResult(TRUE, NoTime, Append(before, check), start, FALSE)
            ELSE SearchResult(FALSE, check, Append(before, check), start, FALSE)

client_get_next_free_slot(t, duration, o) ==
    LET check_end == t + 7 * 1440
        first == first_check(t)
    IN IF first.raised THEN SearchResult(TRUE, NoTime, <<>>, NoTime, FALSE)
       ELSE slot_loop(first.at, check_end, duration, o)

\* what the wrapper sees of the search: an exception, a datetime or None
SlotOutcome(r) ==
    IF r.raised THEN "exception" ELSE IF r.slot # NoTime THEN "slot" ELSE "none"

----------------------------------------------------------------------------
(* process_calendar_query *)

CalOut(resp, cs, cauth, failed) ==
    [response |-> resp, calls |-> cs, client_authenticated |-> cauth,
     failed |-> failed]

\* calendar_subroute with the search/find prefix tested first
calendar_subroute_search_first(user_input_lower) ==
    IF StartsWith(user_input_lower, "search ") \/ StartsWith(user_input_lower, "find ")
    THEN "search"
    ELSE IF ContainsAny(user_input_lower, <<"today", "today's", "todays">>) THEN "today"
    ELSE IF ContainsAny(user_input_lower, <<"week", "weekly", "this week">>) THEN "week"
    ELSE IF ContainsAny(user_input_lower, <<"upcoming", "next events", "future events">>)
    THEN "upcoming"
    ELSE IF ContainsAny(user_input_lower, <<"available", "free", "busy">>)
    THEN "availability"
    ELSE "default"

\* the branch of the if/elif chain that is taken
calendar_subroute(user_input_lower) ==
    IF ContainsAny(user_input_lower, <<"today", "today's", "todays">>) THEN "today"
    ELSE IF ContainsAny(user_input_lower, <<"week", "weekly", "this week">>) THEN "week"
    ELSE IF ContainsAny(user_input_lower, <<"upcoming", "next events", "future events">>)
    THEN "upcoming"
    ELSE IF StartsWith(user_input_lower, "search ") \/ StartsWith(user_input_lower, "find ")
    THEN "search"
    ELSE IF ContainsAny(user_input_lower, <<"available", "free", "busy">>)
    THEN "availability"
    ELSE "default"

\* calendar_search_query removing only the command word at the front
calendar_search_query_front(user_input_lower) ==
    Strip(IF StartsWith(user_input_lower, "search ")
          THEN SubSeq(user_input_lower, 7, Len(user_input_lower))
          ELSE SubSeq(user_input_lower, 5, Len(user_input_lower)))

\* query of the search branch
calendar_search_query(user_input_lower) ==
    Strip(Remove(Remove(user_input_lower, "search"), "find"))

\* wants_next_free asking for one of the two words only
wants_next_free_either(user_input_lower) ==
    Contains(user_input_lower, "next") \/ Contains(user_input_lower, "free")

\* 'next' in user_input_lower and 'free' in user_input_lower
wants_next_free(user_input_lower) ==
    Contains(user_input_lower, "next") /\ Contains(user_input_lower, "free")

process_calendar_query(text, cauth, env) ==
    LET user_input_lower == Strip(Lower(text))
        taken == calendar_subroute(user_input_lower)
        after == EnsureAuthenticated(cauth, env)
    IN
    IF taken = "today"
    THEN LET result == get_todays_events(cauth, env) IN
         CalOut(R1(MSG_TODAY, Get(result.formatted_output, "No events found for today")),
                <<CalCall("get_todays_events", NA, 0)>>, after, result.status = "error")
    ELSE IF taken = "week"
    THEN LET result == get_weekly_events(cauth, env) IN
         CalOut(R1(MSG_WEEK, Get(result.formatted_output, "No events found for this week")),
                <<CalCall("get_weekly_events", NA, 0)>>, after, result.status = "error")
    ELSE IF taken = "upcoming"
    THEN LET result == get_upcoming_events(cauth, env) IN
         CalOut(R1(MSG_UPCOMING, Get(result.formatted_output, "No upcoming events found")),
                <<CalCall("get_upcoming_events", NA, 10)>>, after, result.status = "error")
    ELSE IF taken = "search"
    THEN LET query == calendar_search_query(user_input_lower) IN
         IF query # ""
         THEN LET result == search_events(cauth, env) IN
              CalOut(Resp(MSG_SEARCH_RESULTS, query,
                          Get(result.formatted_output, "No events found for the query"), <<>>),
                     <<CalCall("search_events", query, 10)>>, after, result.status = "error")
         ELSE CalOut(R0(MSG_SEARCH_SPECIFY), <<>>, cauth, FALSE)
    ELSE IF taken = "availability"
    THEN IF wants_next_free(user_input_lower)
         THEN LET result == get_next_free_slot(cauth, env) IN
              CalOut(R1(MSG_AVAILABILITY, Get(result.message, "Unable to find free slot")),
                     <<CalCall("get_next_free_slot", NA, 60)>>, after, result.status = "error")
         ELSE LET result == check_availability(cauth, env) IN
              CalOut(IF result.available = "True" THEN R0(MSG_AVAILABLE) ELSE R0(MSG_BUSY),
                     <<CalCall("check_availability", "now..now+2h", 0)>>, after,
                     result.status = "error")
    ELSE LET result == get_todays_events(cauth, env) IN
         CalOut(R1(MSG_TODAY, Get(result.formatted_output, "No events found for today")),
                <<CalCall("get_todays_events", NA, 0)>>, after, result.status = "error")

----
(* process_memory_query *)

MemOut(resp, cs, st, failed) ==
    [response |-> resp, calls |-> cs, store |-> st, failed |-> failed]

\* text stored by a "remember that/i/to " command
memory_content(text) ==
    LET user_input_lower == Strip(Lower(text)) IN
    IF StartsWith(user_input_lower, "remember that ")
    THEN Strip(Remove(text, "remember that"))
    ELSE IF StartsWith(user_input_lower, "remember i ")
    THEN Strip(Remove(text, "remember i"))
    ELSE IF StartsWith(user_input_lower, "remember to ")
    THEN Strip(Remove(text, "remember to"))
    ELSE text

\* recall_query without lower-casing
recall_query_raw(text) ==
    Strip(Remove(Remove(Strip(text), "recall"), "remember about"))

recall_query(text) ==
    Strip(Remove(Remove(Strip(Lower(text)), "recall"), "remember about"))

\* search_query without the final trim
search_query_untrimmed(text) ==
    Remove(Remove(Strip(Lower(text)), "search memory"), "find in memory")

search_query(text) ==
    Strip(Remove(Remove(Strip(Lower(text)), "search memory"), "find in memory"))

\* the listing branch shared by the exact forms and the short-query fallback
ListMemories(st, uid, env) ==
    LET got == get_memories(st, uid, 10, env.fail)
        c == Call("get_memories", uid, NA, NA, NA, 10, 0)
    IN IF ~got.is_dict
       THEN MemOut(R1(MSG_MEM_SYSTEM_ERROR, "list indices must be integers or slices, not str"),
                   <<c>>, st, TRUE)
       ELSE IF Len(got.results) > 0
       THEN MemOut(Resp(MSG_YOUR_MEMORIES, "", "", got.results), <<c>>, st, FALSE)
       ELSE MemOut(R0(MSG_NONE_STORED), <<c>>, st, FALSE)

\* the clear test matching every text that begins with one of the phrases
is_clear_command_prefix(user_input_lower) ==
    \E p \in {"clear memories", "delete memories", "reset memories"} :
        StartsWith(user_input_lower, p)

\* user_input_lower == 'clear memories' or == 'delete memories' or
\* == 'reset memories'
is_clear_command(user_input_lower) ==
    user_input_lower \in {"clear memories", "delete memories", "reset memories"}

\* the search test without the blank that ends the prefix
is_search_command_bare(user_input_lower) ==
    \/ StartsWith(user_input_lower, "search memory")
    \/ StartsWith(user_input_lower, "find in memory")

\* user_input_lower.startswith('search memory ') or
\* user_input_lower.startswith('find in memory ')
is_search_command(user_input_lower) ==
    \/ StartsWith(user_input_lower, "search memory ")
    \/ StartsWith(user_input_lower, "find in memory ")

process_memory_query(text, avail, uid, st, env) ==
    LET user_input_lower == Strip(Lower(text))
        starts(p) == StartsWith(user_input_lower, p)
    IN
    IF ~avail THEN MemOut(R0(MSG_MEM_UNAVAILABLE), <<>>, st, FALSE)
    ELSE IF starts("remember that ") \/ starts("remember i ") \/ starts("remember to ")
    THEN LET content == memory_content(text) IN
         IF content # "" /\ Len(content) > 5
         THEN LET result == add_memory(st, uid, content, "user_preference", env.fail) IN
              MemOut(IF result.success THEN R1(MSG_MEM_STORED, content)
                                       ELSE R1(MSG_MEM_ERROR, "provider error"),
                     <<Call("add_memory", uid, NA, content, "user_preference", 0, 0)>>,
                     result.store, ~result.success)
         ELSE MemOut(R0(MSG_MEM_INVALID), <<>>, st, FALSE)
    ELSE IF starts("update memory ")
    THEN LET parts == Split(text, 3) IN
         IF Len(parts) >= 4
         THEN LET result == update_memory(st, parts[3], parts[4], env.fail) IN
              MemOut(IF result.success THEN Resp(MSG_MEM_UPDATED, parts[3], parts[4], <<>>)
                                       ELSE R1(MSG_UPDATE_ERROR, "provider error"),
                     <<Call("update_memory", NA, parts[3], parts[4], NA, 0, 0)>>,
                     result.store, ~result.success)
         ELSE MemOut(R0(MSG_UPDATE_USAGE), <<>>, st, FALSE)
    ELSE IF starts("delete memory ")
    THEN LET parts == Split(text, 2) IN
         IF Len(parts) >= 3
         THEN LET result == delete_memory(st, parts[3], env.fail) IN
              MemOut(IF result.success THEN R1(MSG_MEM_DELETED, parts[3])
                                       ELSE R1(MSG_DELETE_ERROR, "provider error"),
                     <<Call("delete_memory", NA, parts[3], NA, NA, 0, 0)>>,
                     result.store, ~result.success)
         ELSE MemOut(R0(MSG_DELETE_USAGE), <<>>, st, FALSE)
    ELSE IF \/ starts("recall ") \/ starts("remember about ")
            \/ user_input_lower = "what do you remember"
            \/ user_input_lower = "my memories"
    THEN IF user_input_lower = "what do you remember" \/ user_input_lower = "my memories"
         THEN ListMemories(st, uid, env)
         ELSE LET query == recall_query(text) IN
              IF query # "" /\ Len(query) > 1
              THEN LET memories == search_memories(st, uid, query, 10, THRESHOLD, env.fail, env.sc) IN
                   MemOut(IF Len(memories) > 0
                          THEN Resp(MSG_MEMORIES_ABOUT, query, "", memories)
                          ELSE R1(MSG_NONE_ABOUT, query),
                          <<Call("search_memories", uid, NA, query, NA, 10, THRESHOLD)>>, st, env.fail)
              ELSE ListMemories(st, uid, env)
    ELSE IF is_search_command(user_input_lower)
    THEN LET query == search_query(text) IN
         IF query # "" /\ Len(query) > 1
         THEN LET memories == search_memories(st, uid, query, 5, THRESHOLD, env.fail, env.sc) IN
              MemOut(IF Len(memories) > 0
                     THEN Resp(MSG_MEM_SEARCH_RESULTS, query, "", memories)
                     ELSE R1(MSG_NONE_FOR, query),
                     <<Call("search_memories", uid, NA, query, NA, 5, THRESHOLD)>>, st, env.fail)
         ELSE MemOut(R0(MSG_MEM_SEARCH_SPECIFY), <<>>, st, FALSE)
    ELSE IF is_clear_command(user_input_lower)
    THEN LET result == clear_user_memories(st, uid, env.fail) IN
         MemOut(IF result.success THEN R0(MSG_MEM_CLEARED)
                                  ELSE R1(MSG_MEM_ERROR, "provider error"),
                <<Call("clear_user_memories", uid, NA, NA, NA, 0, 0)>>, result.store, ~result.success)
    ELSE IF starts("i prefer ") \/ starts("i like ") \/ starts("set preference ")
    THEN LET result == add_memory(st, uid, text, "preference", env.fail) IN
         MemOut(IF result.success THEN R1(MSG_PREF_STORED, text)
                                  ELSE R1(MSG_MEM_ERROR, "provider error"),
                <<Call("add_memory", uid, NA, text, "preference", 0, 0)>>, result.store, ~result.success)
    ELSE MemOut(R0(MSG_UNKNOWN_MEMORY), <<>>, st, FALSE)

----------------------------------------------------------------------------
(* process_user_input *)

memory_patterns ==
    <<"remember that", "remember i", "remember to",
      "recall", "remember about", "what do you remember", "my memories",
      "search memory", "find in memory", "update memory", "delete memory",
      "clear memories", "delete memories", "reset memories",
      "i prefer", "i like", "set preference">>

calendar_patterns ==
    <<"today", "today's", "todays", "week", "weekly", "this week",
      "upcoming", "next events", "future events",
      "search", "find", "available", "free", "busy", "schedule",
      "meeting", "event", "appointment", "calendar">>

IsMemoryText(user_input_lower) ==
    \E i \in 1..Len(memory_patterns) :
        \/ StartsWith(user_input_lower, memory_patterns[i])
        \/ Contains(user_input_lower, memory_patterns[i])

IsCalendarText(user_input_lower) == ContainsAny(user_input_lower, calendar_patterns)

\* Route with the calendar patterns tested before the memory patterns
Route_CalendarFirst(text, cal_auth) ==
    LET user_input_lower == Strip(Lower(text)) IN
    IF IsCalendarText(user_input_lower)
    THEN IF ~cal_auth THEN "not-authenticated" ELSE "calendar"
    ELSE IF IsMemoryText(user_input_lower) THEN "memory"
    ELSE IF user_input_lower \in {"help", "commands", "what can you do"} THEN "help"
    ELSE IF user_input_lower \in {"hello", "hi", "hey", "greetings"} THEN "greeting"
    ELSE "unrecognized"

\* Route without the calendar_authenticated test
Route_IgnoresAuth(text, cal_auth) ==
    LET user_input_lower == Strip(Lower(text)) IN
    IF IsMemoryText(user_input_lower) THEN "memory"
    ELSE IF IsCalendarText(user_input_lower) THEN "calendar"
    ELSE IF user_input_lower \in {"help", "commands", "what can you do"} THEN "help"
    ELSE IF user_input_lower \in {"hello", "hi", "hey", "greetings"} THEN "greeting"
    ELSE "unrecognized"

\* Route on the trimmed text without lower()
Route_CaseSensitive(text, cal_auth) ==
    LET user_input_lower == Strip(text) IN
    IF IsMemoryText(user_input_lower) THEN "memory"
    ELSE IF IsCalendarText(user_input_lower)
    THEN IF ~cal_auth THEN "not-authenticated" ELSE "calendar"
    ELSE IF user_input_lower \in {"help", "commands", "what can you do"} THEN "help"
    ELSE IF user_input_lower \in {"hello", "hi", "hey", "greetings"} THEN "greeting"
    ELSE "unrecognized"

\* Route with the help and greeting words matched anywhere in the text
Route_WordsAnywhere(text, cal_auth) ==
    LET user_input_lower == Strip(Lower(text)) IN
    IF IsMemoryText(user_input_lower) THEN "memory"
    ELSE IF IsCalendarText(user_input_lower)
    THEN IF ~cal_auth THEN "not-authenticated" ELSE "calendar"
    ELSE IF ContainsAny(user_input_lower, <<"help", "commands", "what can you do">>)
    THEN "help"
    ELSE IF ContainsAny(user_input_lower, <<"hello", "hi", "hey", "greetings">>)
    THEN "greeting"
    ELSE "unrecognized"

\* the branch process_user_input takes
Route(text, cal_auth) ==
    LET user_input_lower == Strip(Lower(text)) IN
    IF IsMemoryText(user_input_lower) THEN "memory"
    ELSE IF IsCalendarText(user_input_lower)
    THEN IF ~cal_auth THEN "not-authenticated" ELSE "calendar"
    ELSE IF user_input_lower \in {"help", "commands", "what can you do"} THEN "help"
    ELSE IF user_input_lower \in {"hello", "hi", "hey", "greetings"} THEN "greeting"
    ELSE "unrecognized"

Out(rt, resp, cs, st, cauth, failed) ==
    [route |-> rt, response |-> resp, calls |-> cs, store |-> st,
     client_authenticated |-> cauth, failed |-> failed]

process_user_input(text, cal_auth, cauth, avail, uid, st, env) ==
    LET taken == Route(text, cal_auth) IN
    IF taken = "memory"
    THEN LET m == process_memory_query(text, avail, uid, st, env)
         IN Out(taken, m.response, m.calls, m.store, cauth, m.failed)
    ELSE IF taken = "not-authenticated" THEN Out(taken, R0(MSG_NOT_AUTH), <<>>, st, cauth, FALSE)
    ELSE IF taken = "calendar"
    THEN LET c == process_calendar_query(text, cauth, env)
         IN Out(taken, c.response, c.calls, st, c.client_authenticated, c.failed)
    ELSE IF taken = "help" THEN Out(taken, R0(MSG_HELP), <<>>, st, cauth, FALSE)
    ELSE IF taken = "greeting" THEN Out(taken, R0(MSG_GREETING), <<>>, st, cauth, FALSE)
    ELSE Out(taken, R0(MSG_UNRECOGNIZED), <<>>, st, cauth, FALSE)

----------------------------------------------------------------------------
(* Inputs of the model *)

MemoryHeads ==
    {"remember that", "remember i", "remember to", "recall", "remember about",
     "what do you remember", "my memories", "search memory", "find in memory",
     "update memory", "delete memory", "clear memories", "delete memories",
     "reset memories", "i prefer", "i like", "set preference",
     "Remember That", "REMEMBER TO", "Remember I", "RECALL", "Update Memory",
     "Delete Memory", "Search Memory", "My Memories", "Clear Memories", "I Like",
     " remember that", " update memory", " delete memory", " recall"}

MemoryTails ==
    {"", " ", " x", " abcde", " abcdef", " buy milk", " m1", " m1 new text",
     "  m2 new", " today", " project", " recall", " search memory", " now",
     " remember that tea"}

CalendarHeads ==
    {"today", "Today", "week", "upcoming", "search", "find", "free", "next free",
     "busy", "available", "schedule", "meeting", "event", "appointment",
     "calendar", " search", "next events"}

CalendarTails ==
    {"", " ", " x", " today", " week", " next", " find", " meeting", " recall"}

OtherHeads ==
    {"help", "HELP", "commands", "what can you do", "hello", "hi", "hey",
     "greetings", " help", "please", ""}

OtherTails == {"", " ", " x", " today", " recall", " project", " remember that tea"}

Inputs ==
    {head \o tail : head \in MemoryHeads, tail \in MemoryTails}
    \cup {head \o tail : head \in CalendarHeads, tail \in CalendarTails}
    \cup {head \o tail : head \in OtherHeads, tail \in OtherTails}

SessionInputs ==
    {"", "my memories", "remember that buy milk", "recall tea",
     "update memory m2 likes cocoa", "next free slot"}

InitStores ==
    {<<>>,
     <<Rec("m1", "student_001", "likes tea", "preference"),
       Rec("m2", "guest", "likes coffee", "preference")>>}

\* stores of the sessions: also one holding two records of the session's user
SessionStores ==
    InitStores \cup
    {<<Rec("m1", "student_001", "likes tea", "preference"),
       Rec("m2", "student_001", "drinks tea at five", "preference")>>}

\* outcomes of the memory provider for one command
MemEnvs(st, uid) ==
    {[fail |-> f, sc |-> s, auth_ok |-> TRUE, fetch |-> "events",
      freebusy |-> "free", slot |-> "slot", duration |-> 60] :
        f \in BOOLEAN, s \in [1..Len(OwnedBy(st, uid)) -> Scores]}

\* outcomes of the calendar provider for one command
CalEnvs(st, uid) ==
    LET sc0 == [i \in 1..Len(OwnedBy(st, uid)) |-> THRESHOLD] IN
    {[fail |-> FALSE, sc |-> sc0, auth_ok |-> a, fetch |-> f,
      freebusy |-> "free", slot |-> "slot", duration |-> 60] :
        a \in BOOLEAN, f \in FetchOutcomes}
    \cup
    {[fail |-> FALSE, sc |-> sc0, auth_ok |-> a, fetch |-> "events",
      freebusy |-> b, slot |-> "slot", duration |-> 60] :
        a \in BOOLEAN, b \in FreeBusyOutcomes}
    \cup
    {[fail |-> FALSE, sc |-> sc0, auth_ok |-> a, fetch |-> "events",
      freebusy |-> "free", slot |-> g, duration |-> 60] :
        a \in BOOLEAN, g \in SlotOutcomes}

\* the provider outcomes that the handling of text can observe
Envs(text, cal_auth, st, uid) ==
    LET taken == Route(text, cal_auth) IN
    IF taken = "memory" THEN MemEnvs(st, uid)
    ELSE IF taken = "calendar" THEN CalEnvs(st, uid)
    ELSE {[fail |-> FALSE, sc |-> <<>>, auth_ok |-> TRUE, fetch |-> "events",
           freebusy |-> "free", slot |-> "slot", duration |-> 60]}

\* instants of now: every hour and minute of a day
Nows == {h * 60 + m : h \in 0..23, m \in 0..59}

Durations == {30, 60, 90}

\* window lengths given to check_availability; the router gives 2 hours
Windows == {60, 120}

BusyHours == {1, 2, 24, 7 * 24}

NoOracle == [busy |-> <<>>, fault |-> "none", fault_at |-> 0]

\* busy intervals: none, busy from t for some hours, or one quarter-hour
\* meeting in the coming hours
BusyLists(t) ==
    LET h0 == t - Minute(t) IN
    {<<>>}
    \cup {<< <<t, t + 60 * h>> >> : h \in BusyHours}
    \cup {<< <<h0 + 60, h0 + 75>> >>, << <<h0 + 120, h0 + 135>> >>}

Oracles(t) ==
    {[busy |-> b, fault |-> "none", fault_at |-> 0] : b \in BusyLists(t)}
    \cup {[busy |-> b, fault |-> f, fault_at |-> k] :
              b \in {<<>>, << <<t, t + 120>> >>}, f \in Faults, k \in 0..MaxFaultAt}

----------------------------------------------------------------------------
(* Session handlers of main() *)

UserTurn(text) == [user |-> "User", message |-> text]
AssistantTurn(resp) == [user |-> "Assistant", message |-> resp]

NoCommand ==
    /\ handled' = NA
    /\ route' = NA
    /\ response' = NoResponse
    /\ calls' = <<>>
    /\ gateway_failed' = FALSE
    /\ raised' = FALSE

NoToolCall ==
    /\ duration_minutes = 60
    /\ oracle = NoOracle
    /\ tool = NA
    /\ search = NoSearch
    /\ free_busy = NA
    /\ tool_result = Result(NA, NA, NA, NA)

InitSession ==
    /\ NoToolCall
    /\ calendar_authenticated = FALSE
    /\ client_authenticated = FALSE
    /\ memory_available \in BOOLEAN
    /\ user_id = "student_001"
    /\ chat_history = <<>>
    /\ handled = NA
    /\ route = NA
    /\ response = NoResponse
    /\ calls = <<>>
    /\ gateway_failed = FALSE
    /\ raised = FALSE

Init ==
    /\ user_input \in SessionInputs
    /\ store \in InitStores
    /\ now = 0
    /\ InitSession

InitText ==
    /\ user_input \in Inputs
    /\ store \in InitStores
    /\ now = 0
    /\ InitSession

\* the commands without a memory-set head
InitCommands ==
    /\ user_input \in {head \o tail : head \in CalendarHeads, tail \in CalendarTails}
                       \cup {head \o tail : head \in OtherHeads, tail \in OtherTails}
    /\ store \in InitStores
    /\ now = 0
    /\ InitSession

InitSlot ==
    /\ user_input = ""
    /\ store = <<>>
    /\ now \in Nows
    /\ memory_available = TRUE
    /\ InitSession

\* initialize_session_state at the start of every run of main(): while no
\* memory_manager is in the session state, MemoryManager() is constructed
\* again and memory_available is set from the outcome
initialize_session_state ==
    IF memory_available
    THEN memory_available' = TRUE
    ELSE memory_available' \in BOOLEAN

\* Submit appending the Assistant turn before the User turn
Submit_AssistantFirst(text, max_len) ==
    /\ Len(chat_history) + 2 <= max_len
    /\ initialize_session_state
    /\ \E env \in Envs(text, calendar_authenticated, store, user_id) :
         LET out == process_user_input(text, calendar_authenticated,
                                       client_authenticated, memory_available',
                                       user_id, store, env)
         IN /\ Len(out.store) <= MaxStore
            /\ chat_history' = chat_history \o
                                  <<AssistantTurn(out.response), UserTurn(text)>>
            /\ store' = out.store
            /\ client_authenticated' = out.client_authenticated
            /\ handled' = text
            /\ route' = out.route
            /\ response' = out.response
            /\ calls' = out.calls
            /\ gateway_failed' = out.failed
            /\ raised' = FALSE
    /\ UNCHANGED <<user_input, calendar_authenticated, user_id>>
    /\ UNCHANGED tool_vars

\* one round: User turn, process_user_input, Assistant turn; the transcript
\* of the model holds at most max_len turns
Submit(text, max_len) ==
    /\ Len(chat_history) + 2 <= max_len
    /\ initialize_session_state
    /\ \E env \in Envs(text, calendar_authenticated, store, user_id) :
         LET out == process_user_input(text, calendar_authenticated,
                                       client_authenticated, memory_available',
                                       user_id, store, env)
         IN /\ Len(out.store) <= MaxStore
            /\ chat_history' = chat_history \o
                                  <<UserTurn(text), AssistantTurn(out.response)>>
            /\ store' = out.store
            /\ client_authenticated' = out.client_authenticated
            /\ handled' = text
            /\ route' = out.route
            /\ response' = out.response
            /\ calls' = out.calls
            /\ gateway_failed' = out.failed
            /\ raised' = FALSE
    /\ UNCHANGED <<user_input, calendar_authenticated, user_id>>
    /\ UNCHANGED tool_vars

Round(text) == Submit(text, MaxChat)

Send == user_input # "" /\ Round(user_input)

TodaysSchedule == Round("today")

WeeklyOverview == Round("week")

ShowHelp == Round("help")

SetUserId ==
    /\ \E uid \in UserIds : uid # user_id /\ user_id' = uid
    /\ initialize_session_state
    /\ NoCommand
    /\ UNCHANGED <<user_input, calendar_authenticated, client_authenticated,
                   chat_history, store, tool_vars>>

\* Authenticate setting the session flag whatever authenticate_calendar returns
Authenticate_IgnoresStatus ==
    /\ ~calendar_authenticated
    /\ \E ok \in BOOLEAN :
         /\ client_authenticated' = ok
         /\ calendar_authenticated' = TRUE
    /\ initialize_session_state
    /\ NoCommand
    /\ UNCHANGED <<user_input, user_id, chat_history, store, tool_vars>>

\* "Authenticate Calendar": authenticate_calendar_service()
Authenticate ==
    /\ ~calendar_authenticated
    /\ \E ok \in BOOLEAN :
         /\ client_authenticated' = ok
         /\ calendar_authenticated' = ok
    /\ initialize_session_state
    /\ NoCommand
    /\ UNCHANGED <<user_input, user_id, chat_history, store, tool_vars>>

\* "Re-authenticate Calendar"
ReAuthenticate ==
    /\ calendar_authenticated
    /\ calendar_authenticated' = FALSE
    /\ initialize_session_state
    /\ NoCommand
    /\ UNCHANGED <<user_input, client_authenticated, user_id, chat_history,
                   store, tool_vars>>

\* "View Memories": get_memories(...)['results'] outside any try
ViewMemories ==
    /\ memory_available
    /\ Len(chat_history) + 1 <= MaxChat
    /\ \E fail \in BOOLEAN :
         LET got == get_memories(store, user_id, 10, fail) IN
         /\ raised' = ~got.is_dict
         /\ gateway_failed' = ~got.is_dict
         /\ response' = IF ~got.is_dict THEN NoResponse
                        ELSE IF Len(got.results) > 0
                        THEN Resp(MSG_YOUR_MEMORIES, "", "", got.results)
                        ELSE R0(MSG_VIEW_NONE)
         /\ chat_history' = IF ~got.is_dict THEN chat_history
                            ELSE Append(chat_history, AssistantTurn(response'))
    /\ calls' = <<Call("get_memories", user_id, NA, NA, NA, 10, 0)>>
    /\ handled' = NA
    /\ route' = NA
    /\ UNCHANGED <<user_input, calendar_authenticated, client_authenticated,
                   memory_available, user_id, store, tool_vars>>

\* "Clear Memories"
ClearMemories ==
    /\ memory_available
    /\ Len(chat_history) + 1 <= MaxChat
    /\ \E fail \in BOOLEAN :
         LET result == clear_user_memories(store, user_id, fail) IN
         /\ store' = result.store
         /\ gateway_failed' = ~result.success
         /\ response' = IF result.success THEN R0(MSG_MEM_CLEARED) ELSE NoResponse
         /\ chat_history' = IF result.success
                            THEN Append(chat_history, AssistantTurn(R0(MSG_MEM_CLEARED)))
                            ELSE chat_history
    /\ calls' = <<Call("clear_user_memories", user_id, NA, NA, NA, 0, 0)>>
    /\ handled' = NA
    /\ route' = NA
    /\ raised' = FALSE
    /\ UNCHANGED <<user_input, calendar_authenticated, client_authenticated,
                   memory_available, user_id, tool_vars>>

ClearChat ==
    /\ chat_history' = <<>>
    /\ initialize_session_state
    /\ NoCommand
    /\ UNCHANGED <<user_input, calendar_authenticated, client_authenticated,
                   user_id, store, tool_vars>>

Next ==
    \/ Send
    \/ TodaysSchedule
    \/ WeeklyOverview
    \/ ShowHelp
    \/ SetUserId
    \/ Authenticate
    \/ ReAuthenticate
    \/ ViewMemories
    \/ ClearMemories
    \/ ClearChat

Spec == Init /\ [][Next]_vars

NextText ==
    \/ Send
    \/ Authenticate
    \/ ReAuthenticate

SpecText == InitText /\ [][NextText]_vars

SpecCommands == InitCommands /\ [][NextText]_vars

\* sessions of several rounds: Send and the quick-action buttons
RoundInputs == {"hello", "recall tea", "next free slot"}

InitRounds ==
    /\ user_input \in RoundInputs
    /\ store \in SessionStores
    /\ now = 0
    /\ InitSession

SendRound == user_input # "" /\ Submit(user_input, MaxTranscript)

TodaysScheduleRound == Submit("today", MaxTranscript)

WeeklyOverviewRound == Submit("week", MaxTranscript)

ShowHelpRound == Submit("help", MaxTranscript)

NextRounds ==
    \/ SendRound
    \/ TodaysScheduleRound
    \/ WeeklyOverviewRound
    \/ ShowHelpRound
    \/ Authenticate
    \/ ClearChat

SpecRounds == InitRounds /\ [][NextRounds]_vars

\* the turns displayed: for chat in st.session_state.chat_history[-20:],
\* here taking the first twenty
displayed_first(h) == IF Len(h) <= 20 THEN h ELSE SubSeq(h, 1, 20)

\* the turns displayed: for chat in st.session_state.chat_history[-20:]
displayed(h) == IF Len(h) <= 20 THEN h ELSE SubSeq(h, Len(h) - 19, Len(h))

\* long sessions: every handler of main(), the transcript growing beyond the
\* displayed turns by 'Show Help' rounds
InitLong ==
    /\ user_input = "hello"
    /\ store = <<>>
    /\ now = 0
    /\ InitSession

ShowHelpLong == Submit("help", MaxLongChat)

NextLong ==
    \/ Send
    \/ TodaysSchedule
    \/ WeeklyOverview
    \/ ShowHelpLong
    \/ SetUserId
    \/ Authenticate
    \/ ReAuthenticate
    \/ ViewMemories
    \/ ClearMemories
    \/ ClearChat

SpecLong == InitLong /\ [][NextLong]_vars

\* the tools get_next_free_slot and check_availability called at the instant
\* now; the session of the router is not involved
session_vars ==
    <<user_input, calendar_authenticated, memory_available, user_id,
      chat_history, store, handled, route, response, calls, gateway_failed,
      raised>>

FindSlot ==
    /\ tool = NA
    /\ \E d \in Durations, o \in Oracles(now), a \in BOOLEAN :
         LET authenticated == client_authenticated \/ a
             r == IF authenticated THEN client_get_next_free_slot(now, d, o)
                                   ELSE NoSearch
             env == [fail |-> FALSE, sc |-> <<>>, auth_ok |-> a, fetch |-> "events",
                     freebusy |-> "free", slot |-> SlotOutcome(r), duration |-> d]
         IN /\ duration_minutes' = d
            /\ oracle' = IF authenticated THEN o ELSE NoOracle
            /\ search' = r
            /\ client_authenticated' = authenticated
            /\ tool_result' = get_next_free_slot(client_authenticated, env)
    /\ tool' = "get_next_free_slot"
    /\ free_busy' = NA
    /\ UNCHANGED <<now, session_vars>>

CheckAvailability ==
    /\ tool = NA
    /\ \E w \in Windows, o \in Oracles(now), a \in BOOLEAN :
         LET authenticated == client_authenticated \/ a
             fb == get_free_busy_info(o, 0, now, now + w)
             env == [fail |-> FALSE, sc |-> <<>>, auth_ok |-> a, fetch |-> "events",
                     freebusy |-> fb, slot |-> "slot", duration |-> 60]
         IN /\ duration_minutes' = w
            /\ oracle' = IF authenticated THEN o ELSE NoOracle
            /\ free_busy' = IF authenticated THEN fb ELSE NA
            /\ client_authenticated' = authenticated
            /\ tool_result' = check_availability(client_authenticated, env)
    /\ tool' = "check_availability"
    /\ search' = NoSearch
    /\ UNCHANGED <<now, session_vars>>

NextSlot ==
    \/ FindSlot
    \/ CheckAvailability

SpecSlot == InitSlot /\ [][NextSlot]_vars

----------------------------------------------------------------------------
(* Vocabulary of the properties *)

Norm(t) == Strip(Lower(t))

MemorySet ==
    {"remember that", "remember i", "remember to", "recall", "remember about",
     "what do you remember", "my memories", "search memory", "find in memory",
     "update memory", "delete memory", "clear memories", "delete memories",
     "reset memories", "i prefer", "i like", "set preference"}

CalendarSet ==
    {"today", "today's", "todays", "week", "weekly", "this week", "upcoming",
     "next events", "future events", "search", "find", "available", "free",
     "busy", "schedule", "meeting", "event", "appointment", "calendar"}

MentionsMemory(t) == \E p \in MemorySet : Contains(Norm(t), p)
MentionsCalendar(t) == \E p \in CalendarSet : Contains(Norm(t), p)

CalendarGatewayOps ==
    {"get_todays_events", "get_weekly_events", "get_upcoming_events",
     "search_events", "check_availability", "get_next_free_slot"}

CalledOps == {calls[i].op : i \in 1..Len(calls)}

\* a command has just been handled by process_user_input
Commanded == handled # NA

RememberPrefixes == {"remember that ", "remember i ", "remember to "}

IsRemember(t) == \E p \in RememberPrefixes : StartsWith(Norm(t), p)

\* the original-case text with the matched prefix removed from its front,
\* trimmed
AfterRememberPrefix(t) ==
    LET p == CHOOSE q \in RememberPrefixes : StartsWith(Norm(t), q)
    IN Strip(SubSeq(LStrip(t), Len(p) + 1, Len(LStrip(t))))

\* whitespace-separated tokens of a text
RECURSIVE Tokens(_)
Tokens(t) ==
    LET u == LStrip(t)
        k == FindSpace(u, 1)
    IN IF u = "" THEN <<>>
       ELSE IF k = 0 THEN <<u>>
       ELSE <<SubSeq(u, 1, k - 1)>> \o Tokens(SubSeq(u, k + 1, Len(u)))

----------------------------------------------------------------------------
(* C1: every input whose lower-cased, trimmed text contains a memory-set   *)
(* phrase is routed to the Memory Handler, whatever calendar keywords it   *)
(* contains and whatever calendar_authenticated is: no calendar gateway    *)
(* function is called and the reply is not 'Calendar not authenticated'.   *)
C1_MemoryPrecedence ==
    (Commanded /\ MentionsMemory(handled)) =>
        /\ route = "memory"
        /\ CalledOps \cap CalendarGatewayOps = {}
        /\ response.msg # MSG_NOT_AUTH

C1_Witness ==
    /\ Commanded
    /\ MentionsMemory(handled)
    /\ MentionsCalendar(handled)
    /\ ~StartsWith(Norm(handled), "recall")
    /\ Contains(Norm(handled), "recall")
    /\ ~calendar_authenticated
    /\ route = "memory"

(* C2: with calendar_authenticated = false, an input with a calendar-set   *)
(* phrase and no memory-set phrase gets the fixed 'Calendar not            *)
(* authenticated' message and no calendar gateway function is called, also *)
(* after the flag was true and was reset by 'Re-authenticate Calendar'.    *)
C2_NotAuthenticatedBlocks ==
    (/\ Commanded
     /\ ~calendar_authenticated
     /\ MentionsCalendar(handled)
     /\ ~MentionsMemory(handled)) =>
        /\ response = R0(MSG_NOT_AUTH)
        /\ calls = <<>>

\* the gateway client is authenticated while the session flag is false: the
\* flag was true and 'Re-authenticate Calendar' reset it
C2_Witness ==
    /\ Commanded
    /\ client_authenticated
    /\ ~calendar_authenticated
    /\ MentionsCalendar(handled)
    /\ ~MentionsMemory(handled)
    /\ response = R0(MSG_NOT_AUTH)

(* C3: when the gateway operation of a calendar or memory command fails,   *)
(* the response is a user-visible error string, never a normal result.     *)
ErrorMessages ==
    {MSG_CALENDAR_ERROR, MSG_MEM_SYSTEM_ERROR, MSG_MEM_ERROR, MSG_UPDATE_ERROR,
     MSG_DELETE_ERROR}

ErrorResponse ==
    \/ response.msg \in ErrorMessages
    \/ /\ response.msg = MSG_AVAILABILITY
       /\ response.arg \in {"Authentication required", "Failed to find free slot"}

C3_FailureIsVisible == (Commanded /\ gateway_failed) => ErrorResponse

(* C4: no exception escapes process_user_input or the memory actions that  *)
(* append to the transcript.                                               *)
C4_NoExceptionEscapes == ~raised

(* C5: process_user_input selects exactly one of the six routes, and any   *)
(* two inputs with the same lower-cased, trimmed text get the same route   *)
(* under the same calendar_authenticated.                                  *)
Routes ==
    {"memory", "calendar", "not-authenticated", "help", "greeting", "unrecognized"}

\* inputs that have the lower-cased, trimmed text of t
SameNorm(t) == {t, " " \o t, t \o " ", Lower(t), Strip(t), Norm(t)}

C5_RouteDeterministic ==
    Commanded =>
        /\ route \in Routes
        /\ \A t \in SameNorm(handled) :
              /\ Norm(t) = Norm(handled)
              /\ Route(t, calendar_authenticated) = route

C5_Witness ==
    /\ Commanded
    /\ handled # Norm(handled)
    /\ Lower(handled) # handled
    /\ route = "help"

(* C6: for every input whose lower-cased, trimmed text starts with         *)
(* 'remember that ', 'remember i ' or 'remember to ', in any letter case,  *)
(* add_memory is called with category 'user_preference' and the           *)
(* original-case input with exactly the matched prefix removed from its    *)
(* front, trimmed (more than 5 characters of it being left).               *)
C6_RememberStoresStripped ==
    (/\ Commanded
     /\ memory_available
     /\ IsRemember(handled)
     /\ Len(AfterRememberPrefix(handled)) > 5) =>
        calls = <<Call("add_memory", user_id, NA, AfterRememberPrefix(handled),
                       "user_preference", 0, 0)>>

(* C7: a 'remember that/i/to ' input, in any letter case, whose text after *)
(* the matched prefix has length <= 5 gets the 'Please provide a valid     *)
(* memory to store' error and add_memory is not called.                    *)
C7_ShortMemoryRejected ==
    (/\ Commanded
     /\ memory_available
     /\ IsRemember(handled)
     /\ Len(AfterRememberPrefix(handled)) <= 5) =>
        /\ response = R0(MSG_MEM_INVALID)
        /\ calls = <<>>

(* C8: an 'update memory' command without an id or without new content,    *)
(* the bare 'update memory' included, gets the usage error and             *)
(* update_memory is not called.                                            *)
C8_UpdateUsage ==
    (/\ Commanded
     /\ memory_available
     /\ \/ Norm(handled) = "update memory"
        \/ StartsWith(Norm(handled), "update memory ")
     /\ Len(Tokens(Norm(handled))) < 4) =>
        /\ response = R0(MSG_UPDATE_USAGE)
        /\ calls = <<>>

(* C9: recall branch.  The exact texts 'what do you remember' and          *)
(* 'my memories', and a 'recall '/'remember about ' text whose query (the  *)
(* lower-cased, trimmed text with 'recall' and 'remember about' removed,   *)
(* trimmed) has length <= 1, call get_memories(user_id, limit 10) and no   *)
(* search; a longer query is searched with limit 10 and threshold 0.5.     *)
C9_RecallBranch ==
    (Commanded /\ memory_available) =>
        LET n == Norm(handled)
            q == Strip(Remove(Remove(n, "recall"), "remember about"))
            prefixed == StartsWith(n, "recall ") \/ StartsWith(n, "remember about ")
        IN /\ (\/ n \in {"what do you remember", "my memories"}
               \/ (prefixed /\ Len(q) <= 1)) =>
                  calls = <<Call("get_memories", user_id, NA, NA, NA, 10, 0)>>
           /\ (prefixed /\ Len(q) > 1) =>
                  calls = <<Call("search_memories", user_id, NA, q, NA, 10, 5)>>

C9_Witness ==
    /\ Commanded
    /\ handled = "RECALL project"
    /\ calls = <<Call("search_memories", "student_001", NA, "project", NA, 10, 5)>>

(* C10: memory search branch.  For a text starting with 'search memory '   *)
(* or 'find in memory ', a query (the phrases removed, trimmed) of length  *)
(* <= 1 gets the 'Please specify' message without a gateway call; a        *)
(* longer one is searched exactly once with limit 5 and threshold 0.5.     *)
C10_SearchBranch ==
    (/\ Commanded
     /\ memory_available
     /\ \/ StartsWith(Norm(handled), "search memory ")
        \/ StartsWith(Norm(handled), "find in memory ")) =>
        LET q == Strip(Remove(Remove(Norm(handled), "search memory"), "find in memory"))
        IN IF Len(q) <= 1
           THEN response = R0(MSG_MEM_SEARCH_SPECIFY) /\ calls = <<>>
           ELSE calls = <<Call("search_memories", user_id, NA, q, NA, 5, 5)>>

C10_Witness ==
    /\ Commanded
    /\ memory_available
    /\ handled = "search memory x"
    /\ response = R0(MSG_MEM_SEARCH_SPECIFY)
    /\ calls = <<>>

(* C11: search_memories returns exactly the sub-sequence of the raw        *)
(* provider results whose score is >= the threshold (0.5 by default), in   *)
(* the provider's order: results below it or without a score are absent,   *)
(* and the returned count never exceeds the requested limit.               *)
Limits == 0..(MaxStore + 1)

\* the raw results with a score of at least 0.5, in the provider's order
RECURSIVE AtLeastHalf(_)
AtLeastHalf(raw) ==
    IF raw = <<>> THEN <<>>
    ELSE IF Head(raw).score # NoScore /\ Head(raw).score >= 5
         THEN <<Head(raw)>> \o AtLeastHalf(Tail(raw))
         ELSE AtLeastHalf(Tail(raw))

C16_Fallbacks ==
    (Commanded /\ ~MentionsMemory(handled) /\ ~MentionsCalendar(handled)) =>
        /\ response =
              IF Norm(handled) \in {"help", "commands", "what can you do"}
              THEN R0(MSG_HELP)
              ELSE IF Norm(handled) \in {"hello", "hi", "hey", "greetings"}
              THEN R0(MSG_GREETING)
              ELSE R0(MSG_UNRECOGNIZED)
        /\ calls = <<>>
        /\ \A cal_auth \in BOOLEAN, avail \in BOOLEAN :
              \A env \in Envs(handled, cal_auth, store, user_id) :
                  LET out == process_user_input(handled, cal_auth, client_authenticated,
                                                avail, user_id, store, env)
                  IN out.response = response /\ out.calls = <<>>

C16_Witness ==
    /\ Commanded
    /\ handled = "hey "
    /\ response = R0(MSG_GREETING)
    /\ calendar_authenticated
    /\ ~memory_available

\* the text matches one of the first three sub-routes of the Calendar Handler
MatchesToday(n) == Contains(n, "today")
MatchesWeek(n) == Contains(n, "week")
MatchesUpcoming(n) ==
    \E w \in {"upcoming", "next events", "future events"} : Contains(n, w)
MatchesSearch(n) == StartsWith(n, "search ") \/ StartsWith(n, "find ")
MatchesAvailability(n) == \E w \in {"available", "free", "busy"} : Contains(n, w)

(* C17: the Calendar Handler dispatches by first match in the order        *)
(* today > week > upcoming > search/find prefix > available/free/busy >    *)
(* default: only the earliest matching sub-route acts ('search today'      *)
(* fetches today's events and does not search) and an input matching none  *)
(* of the first five fetches today's events.                               *)
C17_FirstMatchOrder ==
    (Commanded /\ route = "calendar") =>
        LET n == Norm(handled) IN
        IF MatchesToday(n)
        THEN CalledOps = {"get_todays_events"} /\ response.msg = MSG_TODAY
        ELSE IF MatchesWeek(n)
        THEN CalledOps = {"get_weekly_events"} /\ response.msg = MSG_WEEK
        ELSE IF MatchesUpcoming(n)
        THEN CalledOps = {"get_upcoming_events"} /\ response.msg = MSG_UPCOMING
        ELSE IF MatchesSearch(n)
        THEN /\ CalledOps \subseteq {"search_events"}
             /\ response.msg \in {MSG_SEARCH_RESULTS, MSG_SEARCH_SPECIFY}
        ELSE IF MatchesAvailability(n)
        THEN /\ CalledOps \in {{"get_next_free_slot"}, {"check_availability"}}
             /\ response.msg \in {MSG_AVAILABILITY, MSG_AVAILABLE, MSG_BUSY}
        ELSE CalledOps = {"get_todays_events"} /\ response.msg = MSG_TODAY

C17_Witness ==
    /\ Commanded
    /\ handled = "search today"
    /\ calls = <<CalCall("get_todays_events", NA, 0)>>
    /\ response.msg = MSG_TODAY

(* C18: calendar search sub-route.  For a text starting with 'search ' or  *)
(* 'find ' that matches no earlier sub-route, the query is the lower-cased *)
(* text with every occurrence of 'search' and of 'find' removed, trimmed;  *)
(* a non-empty query is searched once with max_results 10, an empty one    *)
(* gets the 'Please specify' message without a gateway call.               *)
C18_CalendarSearch ==
    LET n == Norm(handled) IN
    (/\ Commanded
     /\ route = "calendar"
     /\ ~MatchesToday(n) /\ ~MatchesWeek(n) /\ ~MatchesUpcoming(n)
     /\ MatchesSearch(n)) =>
        LET q == Strip(Remove(Remove(n, "search"), "find")) IN
        IF q # ""
        THEN /\ calls = <<CalCall("search_events", q, 10)>>
             /\ response.msg = MSG_SEARCH_RESULTS
             /\ response.arg = q
        ELSE /\ calls = <<>>
             /\ response = R0(MSG_SEARCH_SPECIFY)

C18_Witness ==
    /\ Commanded
    /\ route = "calendar"
    /\ handled = "search find"
    /\ calls = <<>>
    /\ response = R0(MSG_SEARCH_SPECIFY)

(* C19: availability sub-route.  For a text containing 'available', 'free' *)
(* or 'busy' that matches no earlier sub-route, get_next_free_slot with    *)
(* duration 60 is called iff the text contains both 'next' and 'free';     *)
(* otherwise check_availability is called for [now, now + 2h) and the      *)
(* reply is 'available for the next 2 hours' when the gateway reports      *)
(* available = true and 'busy in the next 2 hours' otherwise.              *)
C19_AvailabilityRoute ==
    LET n == Norm(handled) IN
    (/\ Commanded
     /\ route = "calendar"
     /\ ~MatchesToday(n) /\ ~MatchesWeek(n) /\ ~MatchesUpcoming(n)
     /\ ~MatchesSearch(n)
     /\ MatchesAvailability(n)) =>
        IF Contains(n, "next") /\ Contains(n, "free")
        THEN calls = <<CalCall("get_next_free_slot", NA, 60)>>
        ELSE /\ calls = <<CalCall("check_availability", "now..now+2h", 0)>>
             /\ response \in {R0(MSG_AVAILABLE), R0(MSG_BUSY)}
             /\ \A cauth \in BOOLEAN, env \in CalEnvs(store, user_id) :
                   process_calendar_query(handled, cauth, env).response =
                       IF check_availability(cauth, env).available = "True"
                       THEN R0(MSG_AVAILABLE)
                       ELSE R0(MSG_BUSY)

C19_Witness ==
    /\ Commanded
    /\ handled = "busy next"
    /\ calls = <<CalCall("check_availability", "now..now+2h", 0)>>
    /\ response = R0(MSG_AVAILABLE)

\* the turns alternate User, Assistant and end with an Assistant turn
Alternating(h) ==
    /\ Len(h) % 2 = 0
    /\ \A i \in 1..Len(h) : h[i].user = IF i % 2 = 1 THEN "User" ELSE "Assistant"

(* C20: each submitted command (Send with a non-empty input or a quick     *)
(* action) is one round: at most one gateway operation is called and       *)
(* exactly two turns are appended, the User turn with the input and then   *)
(* the Assistant turn with the response; so a transcript grown from the    *)
(* empty one by submitted commands has even length and alternates User,    *)
(* Assistant.                                                              *)
C20_OneRoundPerCommand ==
    /\ [](Alternating(chat_history))
    /\ [][handled' # NA =>
              /\ chat_history' = chat_history \o
                                    <<UserTurn(handled'), AssistantTurn(response')>>
              /\ Len(calls') <= 1]_vars

\* a quick action after a Send that called a gateway
C20_Witness ==
    /\ Commanded
    /\ Len(chat_history) = 4
    /\ chat_history[1] = UserTurn("recall tea")
    /\ chat_history[3] = UserTurn("week")
    /\ chat_history[4] = AssistantTurn(response)
    /\ Len(calls) = 1

\* h is an initial part of g
IsPrefix(h, g) == Len(h) <= Len(g) /\ SubSeq(g, 1, Len(h)) = h

\* the last min(20, length) turns of h, in order
LastTwenty(h) ==
    LET n == IF Len(h) < 20 THEN Len(h) ELSE 20
    IN [i \in 1..n |-> h[Len(h) - n + i]]

(* C21: chat_history is append-only: every action other than 'Clear Chat'  *)
(* leaves the existing turns unchanged and in place; 'Clear Chat' resets   *)
(* it to empty and changes nothing else of the session; the displayed view *)
(* is always the last min(20, length) turns in order.                      *)
C21_AppendOnlyTranscript ==
    /\ [](displayed(chat_history) = LastTwenty(chat_history))
    /\ [][\/ IsPrefix(chat_history, chat_history')
           \/ /\ chat_history' = <<>>
              /\ UNCHANGED <<user_input, calendar_authenticated, client_authenticated,
                             user_id, store>>]_vars

\* a transcript longer than the displayed part
C21_Witness ==
    /\ Len(chat_history) = 22
    /\ Len(displayed(chat_history)) = 20
    /\ displayed(chat_history)[1] = chat_history[3]
    /\ chat_history[1].user = "Assistant"

----------------------------------------------------------------------------
(* Vocabulary of the slot-search properties *)

\* t rounded up to the next half-hour boundary, rolling over at midnight
RoundUp(t) == IF Minute(t) < 30 THEN t - Minute(t) + 30 ELSE t - Minute(t) + 60

\* the k-th candidate, k counted from 0: 1-hour steps from the rounded start
Candidate(k) == RoundUp(now) + 60 * k

\* candidates lying before now + 7 days
CandidateIndexes == {k \in 0..168 : Candidate(k) < now + 7 * 1440}

\* the provider reports the window of the k-th candidate free
ReportsFree(k) ==
    get_free_busy_info(oracle, k, Candidate(k), Candidate(k) + duration_minutes) = "free"

FreeIndexes == {k \in CandidateIndexes : ReportsFree(k)}

\* the tool get_next_free_slot ran the search of the calendar client
Searched == tool = "get_next_free_slot" /\ client_authenticated

\* the provider raised no exception other than an HTTP error
NoProviderException == oracle.fault # "exception"

(* C12: get_next_free_slot returns the earliest candidate, among those     *)
(* reached by 1-hour steps from the rounded start and lying before         *)
(* now + 7 days, whose window [candidate, candidate + duration) the        *)
(* free/busy oracle reports free; the returned start is on an hour or      *)
(* half-hour boundary and its window overlaps no busy interval.            *)
C12_EarliestFreeSlot ==
    (Searched /\ NoProviderException) =>
        /\ FreeIndexes # {} =>
              \E k \in FreeIndexes :
                  /\ search.slot = Candidate(k)
                  /\ \A j \in FreeIndexes : k <= j
        /\ search.slot # NoTime =>
              /\ \E k \in FreeIndexes : search.slot = Candidate(k)
              /\ Minute(search.slot) \in {0, 30}
              /\ ~Overlaps(oracle, search.slot, search.slot + duration_minutes)

(* C13: for every now (hour 0..23, minute 0..59) the first candidate of    *)
(* get_next_free_slot is now rounded up: the same hour at :30 when the     *)
(* minute is < 30, else the next hour at :00, rolling over to the next day *)
(* at hour 23; the rounding never fails and the first candidate is never   *)
(* before now.                                                             *)
C13_RoundedStart ==
    Searched =>
        /\ search.start # NoTime
        /\ search.start = RoundUp(now)
        /\ search.start >= now

(* C14: get_next_free_slot terminates: it tests only candidates strictly   *)
(* before now + 7 days, makes at most 168 availability queries, and when   *)
(* no tested candidate is free the gateway reports next_available_slot =   *)
(* null with 'No available <d>-minute slot found in the next 7 days'.      *)
C14_BoundedSearch ==
    (Searched /\ NoProviderException) =>
        /\ ~search.diverged
        /\ Len(search.tested) <= 168
        /\ \A i \in 1..Len(search.tested) : search.tested[i] < now + 7 * 1440
        /\ search.slot = NoTime =>
              tool_result =
                  [status |-> "success",
                   message |-> "No available " \o DurationText[duration_minutes]
                                   \o "-minute slot found in the next 7 days",
                   formatted_output |-> NA, available |-> NA,
                   next_available_slot |-> "None"]

(* C15: is_available(start, end) is true if and only if the provider's     *)
(* free/busy response reports zero busy intervals in [start, end); a       *)
(* window is never reported available when the provider gave no answer.    *)
C15_AvailableIffNoBusy ==
    (/\ tool = "check_availability"
     /\ client_authenticated
     /\ free_busy # "exception") =>
        (tool_result.available = "True" <=> free_busy = "free")

----------------------------------------------------------------------------
(* Memory commands of the chat router                                      *)

\* the records of the users other than uid are the same in st and in st2
OthersUnchanged(st, st2, uid) ==
    \A v \in UserIds \ {uid} : OwnedBy(st2, v) = OwnedBy(st, v)

(* C22: memory commands are scoped to the user id of the session: a       *)
(* command handled by the Memory Handler leaves the records of every      *)
(* other user id unchanged and shows none of them in its response.        *)
C22_UserScoped ==
    [][(handled' # NA /\ route' = "memory") =>
          /\ OthersUnchanged(store, store', user_id)
          /\ \A i \in 1..Len(response'.items) :
                 response'.items[i].user_id = user_id]_vars

(* C23: delete branch.  For a text starting with 'delete memory ' the     *)
(* handler calls delete_memory exactly once, with the third whitespace    *)
(* token of the input as id; with fewer than 3 tokens it returns the      *)
(* usage error 'delete memory <id>' and calls no gateway operation.       *)
C23_DeleteThirdToken ==
    (/\ Commanded
     /\ memory_available
     /\ StartsWith(Lower(handled), "delete memory ")) =>
        IF Len(Tokens(handled)) < 3
        THEN response = R0(MSG_DELETE_USAGE) /\ calls = <<>>
        ELSE calls = <<Call("delete_memory", NA, Tokens(handled)[3], NA, NA, 0, 0)>>

ClearPhrases == {"clear memories", "delete memories", "reset memories"}

(* C24: the chat router calls clear_user_memories only when the           *)
(* lower-cased, trimmed text is exactly 'clear memories', 'delete         *)
(* memories' or 'reset memories'; a text that contains or extends one of  *)
(* them, such as 'clear memories now', does not delete all memories.      *)
C24_ClearOnlyExact ==
    /\ []((Commanded /\ "clear_user_memories" \in CalledOps) =>
              Norm(handled) \in ClearPhrases)
    /\ [][(handled' # NA /\ Norm(handled') \notin ClearPhrases
            /\ OwnedBy(store, user_id) # <<>>) =>
              OwnedBy(store', user_id) # <<>> \/ "delete_memory" \in {calls'[i].op : i \in 1..Len(calls')}]_vars

C24_Witness ==
    /\ handled = "Clear Memories "
    /\ calls = <<Call("clear_user_memories", user_id, NA, NA, NA, 0, 0)>>
    /\ response = R0(MSG_MEM_CLEARED)
    /\ OwnedBy(store, user_id) = <<>>
    /\ Len(store) = 1

\* the text that follows the first n whitespace-separated tokens of t
RECURSIVE DropTokens(_, _)
DropTokens(t, n) ==
    LET u == LStrip(t)
        k == FindSpace(u, 1)
    IN IF n = 0 THEN u
       ELSE IF k = 0 THEN ""
       ELSE DropTokens(SubSeq(u, k + 1, Len(u)), n - 1)

(* C25: update extraction.  For a text whose lower-cased, trimmed form    *)
(* starts with 'update memory ' and that has at least 4 whitespace        *)
(* tokens, update_memory is called with the token after 'memory' as id    *)
(* and all the raw text after the id as new content, also with leading    *)
(* whitespace or several spaces between the tokens.                       *)
C25_UpdateExtraction ==
    (/\ Commanded
     /\ memory_available
     /\ StartsWith(Norm(handled), "update memory ")
     /\ Len(Tokens(handled)) >= 4) =>
        /\ Len(calls) = 1
        /\ calls[1].op = "update_memory"
        /\ calls[1].id = Tokens(handled)[3]
        /\ Strip(calls[1].text) = Strip(DropTokens(handled, 3))

----------------------------------------------------------------------------
----------------------------------------------------------------------------
\* the prefixes and the exact texts that process_memory_query answers to
PrefixPatterns ==
    {"remember that ", "remember i ", "remember to ", "update memory ",
     "delete memory ", "recall ", "remember about ", "search memory ",
     "find in memory ", "i prefer ", "i like ", "set preference "}

ExactPatterns ==
    {"what do you remember", "my memories", "clear memories",
     "delete memories", "reset memories"}

MatchesNoPattern(n) ==
    /\ n \notin ExactPatterns
    /\ \A p \in PrefixPatterns : ~StartsWith(n, p)

(* C27: an input routed to the Memory Handler because it contains a       *)
(* memory-set phrase, while its lower-cased, trimmed text matches none of *)
(* the handler's prefixes or exact texts, gets the 'Unknown Memory        *)
(* Command' fallback; no gateway operation is called and the memory       *)
(* store is unchanged.                                                    *)
C27_UnknownMemoryCommand ==
    [][(/\ handled' # NA
        /\ memory_available'
        /\ route' = "memory"
        /\ MatchesNoPattern(Norm(handled'))) =>
           /\ response' = R0(MSG_UNKNOWN_MEMORY)
           /\ calls' = <<>>
           /\ store' = store]_vars

C27_Witness ==
    /\ handled = "please recall"
    /\ route = "memory"
    /\ memory_available
    /\ response = R0(MSG_UNKNOWN_MEMORY)
    /\ calls = <<>>
    /\ Len(store) = 2

----------------------------------------------------------------------------
(* C28: authentication state of one session.  calendar_authenticated      *)
(* starts false; it becomes true only in a step in which                  *)
(* authenticate_calendar returned 'success', that is, the client has just *)
(* authenticated; it becomes false only by 'Re-authenticate Calendar',    *)
(* which changes nothing else of the session; and whenever it is true the *)
(* client's own authenticated flag is true.                               *)
C28_AuthenticationState ==
    /\ ~calendar_authenticated
    /\ [](calendar_authenticated => client_authenticated)
    /\ [][((~calendar_authenticated /\ calendar_authenticated') =>
              (/\ client_authenticated'
               /\ handled' = NA
               /\ UNCHANGED <<user_id, chat_history, store>>))
          /\
          ((calendar_authenticated /\ ~calendar_authenticated') =>
              (/\ handled' = NA
               /\ UNCHANGED <<client_authenticated, user_id, chat_history,
                              store>>))]_vars

C28_Witness ==
    /\ calendar_authenticated
    /\ client_authenticated
    /\ route = "calendar"
    /\ handled = "today"
    /\ response.msg = MSG_TODAY

----------------------------------------------------------------------------
(* C29: when the memory client failed to initialise (memory_available is  *)
(* false), every input routed to the Memory Handler, whatever its         *)
(* sub-command, gets 'Memory system is not available.' and no memory      *)
(* gateway operation is attempted, so the store stays as it is;           *)
(* memory_available never changes after the session is initialised.       *)
C29_MemoryUnavailable ==
    /\ []((Commanded /\ ~memory_available /\ route = "memory") =>
              (response = R0(MSG_MEM_UNAVAILABLE) /\ calls = <<>> /\ ~gateway_failed))
    /\ [][memory_available' = memory_available]_vars
====
